---- MODULE Spec2Model ----
(***************************************************************************)
(* Model of the KoboToolbox extraction pipeline                            *)
(* (src/update_kobotoolbox/pipeline.py): the relevance-condition parser,   *)
(* the Api client, the three extraction functions and the update_geonode   *)
(* run.  Python strings are TLA+ strings (TLC treats them as sequences of  *)
(* characters), so str.replace, str.startswith, str.split and str.lower    *)
(* are computed character by character.                                    *)
(***************************************************************************)
EXTENDS Integers, Sequences, FiniteSets, TLC

VARIABLES
    relevant,       \* Field.meta["relevant"], as the list of its parts
    condition,      \* what Field.condition returned
    headers,        \* Api.session.headers["Authorization"] (NoHeader: not set)
    calls,          \* the calls made on the Api, in order
    survey,         \* the survey metadata the server holds (its fields)
    fields,         \* what get_fields_metadata returned
    response,       \* the "results" of the survey's data URL
    data,           \* what get_survey_data returned / update_geonode's data
    geodata,        \* what get_survey_geodata returned
    error,          \* the exception that ended the call or the run ("": none)
    pc,             \* position of the process under check
    survey_name, postgres_table, postgis_table, anonymize,
                    \* the parameters of the update_geonode run
    survey_uid,     \* update_geonode's survey_uid
    output_dir,     \* update_geonode's output_dir
    files,          \* the workspace file system: the files, path and content
    db,             \* the workspace database: the tables, name and content
    dbWrites,       \* the tables the run wrote, in order
    log,            \* the messages the run gave to current_run
    runs            \* the runs so far that made their output directory

condVars == <<relevant, condition>>
apiVars == <<headers, calls>>
fieldVars == <<survey, fields>>
dataVars == <<response, data, geodata>>
paramVars == <<survey_name, postgres_table, postgis_table, anonymize>>
runVars == <<paramVars, survey_uid, output_dir, files, db, dbWrites, log, runs>>

vars == <<relevant, condition, headers, calls, survey, fields, response,
          data, geodata, error, pc, survey_name, postgres_table,
          postgis_table, anonymize, survey_uid, output_dir, files, db,
          dbWrites, log, runs>>

-----------------------------------------------------------------------------
(* Python str operations *)

StartsWith(s, p) == Len(s) >= Len(p) /\ SubSeq(s, 1, Len(p)) = p

Contains(s, p) ==
    \E i \in 1..(Len(s) - Len(p) + 1) : SubSeq(s, i, i + Len(p) - 1) = p

\* s.replace(old, new): leftmost, non-overlapping occurrences, old non-empty
RECURSIVE Replace(_, _, _)
Replace(s, old, new) ==
    IF Len(s) < Len(old) THEN s
    ELSE IF SubSeq(s, 1, Len(old)) = old
         THEN new \o Replace(SubSeq(s, Len(old) + 1, Len(s)), old, new)
         ELSE SubSeq(s, 1, 1) \o Replace(Tail(s), old, new)

\* s.split(sep)[-1] for a one-character sep
RECURSIVE LastSegment(_, _)
LastSegment(s, sep) ==
    IF ~Contains(s, sep) THEN s
    ELSE LastSegment(Tail(s), sep)

\* s.rstrip(ch) for a one-character ch
RECURSIVE RStrip(_, _)
RStrip(s, ch) ==
    IF Len(s) > 0 /\ SubSeq(s, Len(s), Len(s)) = ch
    THEN RStrip(SubSeq(s, 1, Len(s) - 1), ch)
    ELSE s

UpperCase == "ABCDEFGHIJKLMNOPQRSTUVWXYZ"
LowerCase == "abcdefghijklmnopqrstuvwxyz"

LowerChar(c) ==
    IF \E i \in 1..Len(UpperCase) : SubSeq(UpperCase, i, i) = c
    THEN LET i == CHOOSE j \in 1..Len(UpperCase) : SubSeq(UpperCase, j, j) = c
         IN  SubSeq(LowerCase, i, i)
    ELSE c

\* s.lower()
RECURSIVE Lower(_)
Lower(s) == IF Len(s) = 0 THEN s ELSE LowerChar(SubSeq(s, 1, 1)) \o Lower(Tail(s))

-----------------------------------------------------------------------------
(* Field.parse_condition *)

\* the same replacements with the first two exchanged
parse_condition_unordered(expression) ==
    LET e1 == Replace(expression, "${", "record.get('")
        e2 == Replace(e1, "selected(${", "(record.get('")
        e3 == Replace(e2, "}", "')")
        e4 == Replace(e3, ", ", " == ")
    IN  e4

\* Field.parse_condition: four replacements, each over the whole string
parse_condition(expression) ==
    LET e1 == Replace(expression, "selected(${", "(record.get('")
        e2 == Replace(e1, "${", "record.get('")
        e3 == Replace(e2, "}", "')")
        e4 == Replace(e3, ", ", " == ")
    IN  e4

\* Field.condition
FieldCondition(rel) ==
    IF rel # ""
    THEN [none |-> FALSE, text |-> parse_condition(rel)]
    ELSE [none |-> TRUE, text |-> ""]

-----------------------------------------------------------------------------
(* Relevance expressions: field references and selected() tests joined by   *)
(* boolean connectors.                                                      *)

MaxAtoms == 2

FieldNames == {"a", "q_1"}
ChoiceValues == {"'x'", "1"}
Connectors == {" and ", " or "}

Atoms ==
    [kind : {"ref"}, name : FieldNames, value : {""}]
    \cup [kind : {"sel"}, name : FieldNames, value : ChoiceValues]

Parts == [conn : Connectors \cup {""}, atom : Atoms]

Expressions ==
    {<<>>} \cup
    UNION { { e \in [1..k -> Parts] :
                \A i \in 1..k : (e[i].conn = "") <=> (i = 1) }
            : k \in 1..MaxAtoms }

RenderAtom(a) ==
    IF a.kind = "sel"
    THEN "selected(${" \o a.name \o "}, " \o a.value \o ")"
    ELSE "${" \o a.name \o "}"

RECURSIVE Render(_)
Render(e) ==
    IF e = <<>> THEN ""
    ELSE e[1].conn \o RenderAtom(e[1].atom) \o Render(Tail(e))

ExpectedAtom(a) ==
    IF a.kind = "sel"
    THEN "(record.get('" \o a.name \o "') == " \o a.value \o ")"
    ELSE "record.get('" \o a.name \o "')"

RECURSIVE Expected(_)
Expected(e) ==
    IF e = <<>> THEN ""
    ELSE e[1].conn \o ExpectedAtom(e[1].atom) \o Expected(Tail(e))

\* depth of open parentheses after reading s, or -1 once a ")" closes nothing
RECURSIVE ParenDepth(_, _)
ParenDepth(s, d) ==
    IF d < 0 \/ Len(s) = 0 THEN d
    ELSE IF SubSeq(s, 1, 1) = "(" THEN ParenDepth(Tail(s), d + 1)
    ELSE IF SubSeq(s, 1, 1) = ")" THEN ParenDepth(Tail(s), d - 1)
    ELSE ParenDepth(Tail(s), d)

Balanced(s) == ParenDepth(s, 0) = 0

-----------------------------------------------------------------------------
(* JSON values and table cells.  Every value has the same shape, so that   *)
(* any two can be compared: t is its type, n a number, s a string, l the   *)
(* elements of a list (or the coordinates of a point).                     *)

None == [t |-> "none", n |-> 0, s |-> "", l |-> <<>>]
NaN == [t |-> "nan", n |-> 0, s |-> "", l |-> <<>>]
Num(k) == [t |-> "num", n |-> k, s |-> "", l |-> <<>>]
Str(x) == [t |-> "str", n |-> 0, s |-> x, l |-> <<>>]
List(xs) == [t |-> "list", n |-> 0, s |-> "", l |-> xs]
\* shapely.geometry.Point(x, y)
Point(x, y) == [t |-> "point", n |-> 0, s |-> "", l |-> <<x, y>>]

\* pandas.isna(v)
IsNull(v) == v.t \in {"none", "nan"}

\* bool(v): None is false, NaN is true (a non-zero float), 0 and "" and [] are false
Truthy(v) ==
    CASE v.t = "none" -> FALSE
      [] v.t = "nan" -> TRUE
      [] v.t = "num" -> v.n # 0
      [] v.t = "str" -> v.s # ""
      [] v.t = "list" -> v.l # <<>>
      [] OTHER -> TRUE

\* A JSON object (a Python dict) is the sequence of its items [k, v], in order.
Has(o, key) == \E i \in 1..Len(o) : o[i].k = key

\* o.get(key, default)
Get(o, key, default) ==
    IF Has(o, key)
    THEN o[CHOOSE i \in 1..Len(o) : o[i].k = key].v
    ELSE default

Item(key, value) == [k |-> key, v |-> value]

-----------------------------------------------------------------------------
(* pandas frames: the column labels in order, and the rows, each the       *)
(* sequence of its cells in column order.  A row's position is its index.  *)

EmptyFrame == [cols |-> <<>>, rows |-> <<>>]

HasCol(df, name) == \E j \in 1..Len(df.cols) : df.cols[j] = name

Indices(n) == [j \in 1..n |-> j]

\* the positions of the columns labelled name, in order
PositionsOf(cols, name) ==
    LET Is(j) == cols[j] = name IN SelectSeq(Indices(Len(cols)), Is)

RECURSIVE Positions(_, _)
Positions(cols, labels) ==
    IF labels = <<>> THEN <<>>
    ELSE PositionsOf(cols, labels[1]) \o Positions(cols, Tail(labels))

Take(df, pos) ==
    [cols |-> [i \in 1..Len(pos) |-> df.cols[pos[i]]],
     rows |-> [r \in 1..Len(df.rows) |->
                 [i \in 1..Len(pos) |-> df.rows[r][pos[i]]]]]

\* df[labels] raises KeyError when a label is not a column
SelectRaises(df, labels) == \E i \in 1..Len(labels) : ~HasCol(df, labels[i])

\* df[labels]: every column carrying a requested label, in the order asked
Select(df, labels) == Take(df, Positions(df.cols, labels))

\* df.drop(columns=labels)
Drop(df, labels) ==
    LET Kept(j) == \A i \in 1..Len(labels) : df.cols[j] # labels[i]
    IN  Take(df, SelectSeq(Indices(Len(df.cols)), Kept))

\* df[name], the first column of that label
Column(df, name) ==
    LET j == CHOOSE k \in 1..Len(df.cols) :
                 df.cols[k] = name /\ \A m \in 1..(k - 1) : df.cols[m] # name
    IN  [r \in 1..Len(df.rows) |-> df.rows[r][j]]

\* The dtype pandas infers for a column of Python objects: when every value
\* is a number or missing and one is a number, the column is float64 and the
\* missing values are NaN; otherwise the objects are kept (None stays None).
Infer(values) ==
    IF /\ \E i \in 1..Len(values) : values[i].t = "num"
       /\ \A i \in 1..Len(values) : values[i].t \in {"num", "none", "nan"}
    THEN [i \in 1..Len(values) |-> IF values[i].t = "none" THEN NaN ELSE values[i]]
    ELSE values

\* df[name] = values
SetColumn(df, name, values) ==
    IF HasCol(df, name)
    THEN [cols |-> df.cols,
          rows |-> [r \in 1..Len(df.rows) |->
                      [j \in 1..Len(df.cols) |->
                          IF df.cols[j] = name THEN values[r] ELSE df.rows[r][j]]]]
    ELSE [cols |-> Append(df.cols, name),
          rows |-> [r \in 1..Len(df.rows) |-> Append(df.rows[r], values[r])]]

\* the keys of the records, in order of first appearance
RECURSIVE AddKeys(_, _)
AddKeys(cols, o) ==
    IF o = <<>> THEN cols
    ELSE AddKeys(IF \E j \in 1..Len(cols) : cols[j] = o[1].k
                 THEN cols ELSE Append(cols, o[1].k), Tail(o))

RECURSIVE KeysOf(_, _)
KeysOf(cols, records) ==
    IF records = <<>> THEN cols
    ELSE KeysOf(AddKeys(cols, records[1]), Tail(records))

\* pd.DataFrame(records): one column per key, NaN where a record lacks the
\* key; no record (or None) gives a frame with no column and no row
DataFrame(records) ==
    LET cols == KeysOf(<<>>, records)
        raw(j) == [r \in 1..Len(records) |-> Get(records[r], cols[j], NaN)]
    IN  [cols |-> cols,
         rows |-> [r \in 1..Len(records) |->
                     [j \in 1..Len(cols) |-> Infer(raw(j))[r]]]]

-----------------------------------------------------------------------------
(* Field, Survey *)

\* Field.name
FieldName(meta) == Get(meta, "name", Str(""))

\* Field.label
FieldLabel(meta) ==
    IF Has(meta, "label") THEN Get(meta, "label", None).l[1] ELSE None

\* Field.type
FieldType(meta) == Get(meta, "type", None)

-----------------------------------------------------------------------------
(* The fixed survey name -> identifier mapping *)

SURVEYS ==
    "FICHE_EVALUATION_ATELIER" :> "aKP9ER5mZNa3YdcUYowQxz"
    @@ "FICHE_COGES_PARTCIPATION_ FEMMES" :> "a4XfXz5WgQz9fAq5eP6Mke"
    @@ "FICHE_ CDR _INDICATEURS_REGIONAL_13_04_23-2" :> "aACjCqdUVNnJAjTmzUFrYH"
    @@ "FICHE_ KBT_INDICATEURS_CDR_ PAYS_VF_13_04_23" :> "aC5j6nfQURbW9CZ4CJC9xK"
    @@ "FICHE POINT D'EAU" :> "aNgKpfspFR4x9zJoCzkhAU"
    @@ "FICHE MARCHES A BETAIL" :> "aF2qn7wtg5yfqsR9HKYzU2"
    @@ "FICHE UNITE VETERINAIRE" :> "aCDoMSd2nyHBcDjhoyANYU"
    @@ "FICHE PARC DE VACCINATION" :> "a367o5CCnKDHHqUq6yVmD4"
    @@ "FICHE SOUS PROJETS INNOVANTS" :> "aNsHRV2CSLjstRHDMRnK76"
    @@ "FICHE MODULE SAISIE REGISTRE_PRAPS_2" :> "a7a23KSWs4AAHJeGBaPSxt"
    @@ "FICHE PRATIQUES GESTION DURABLE PAYSAGE" :> "aDtBCJLNdCrHdEpwtrVqWc"
    @@ "FICHE FOURRAGE CULTIVE URC" :> "aBPLmmNrQBHwqVbUPEGY8T"
    @@ "FICHE_MODULE_FORMATION_DEF" :> "a9iGL3zLt9ZcswF5XBvUGo"
    @@ "FICHE SOUS PROJET AGR" :> "aPqUaKpDueEkgzLg6r3cWt"

-----------------------------------------------------------------------------
(* Api *)

NoHeader == ""

\* os.getenv("KOBO_API_URL")
KOBO_API_URL == "https://kobo.example.org/api/v2/"

\* Api.url
ApiUrl == RStrip(KOBO_API_URL, "/")

\* Api.authenticate
authenticate(token) == "Token " \o token

\* Api.check_authentication
check_authentication(hdr) ==
    [method |-> "check_authentication", url |-> "", authorization |-> hdr,
     outcome |-> IF hdr = NoHeader THEN "AuthenticationError" ELSE "ok"]

\* Api.list_surveys: the GET is sent with the session's headers; a body
\* without "results" makes the subscript raise
list_surveys(hdr, status) ==
    [method |-> "list_surveys", url |-> ApiUrl \o "/assets.json",
     authorization |-> hdr,
     outcome |-> IF status = 200 THEN "ok" ELSE "KeyError"]

\* Api.get_survey: raise_for_status on a status that is not a success
get_survey(hdr, uid, status) ==
    [method |-> "get_survey", url |-> ApiUrl \o "/assets/" \o uid \o ".json",
     authorization |-> hdr,
     outcome |-> IF status = 200 THEN "ok" ELSE "HTTPError"]

\* Api.get_data: .get("results") is None when the body has no results
get_data(hdr, url, status) ==
    [method |-> "get_data", url |-> url, authorization |-> hdr, outcome |-> "ok"]

\* the data URL the server embeds in a survey's metadata
DataUrl(uid) == ApiUrl \o "/assets/" \o uid \o "/data.json"

-----------------------------------------------------------------------------
(* Extraction functions *)

\* get_fields_metadata, after the survey was fetched
get_fields_metadata(survey_fields) ==
    LET Retained(meta) ==
            /\ Truthy(FieldName(meta))
            /\ ~StartsWith(FieldName(meta).s, "group")
        Record(meta) ==
            <<Item("name", FieldName(meta)), Item("label", FieldLabel(meta)),
              Item("type", FieldType(meta))>>
        kept == SelectSeq(survey_fields, Retained)
    IN  DataFrame([i \in 1..Len(kept) |-> Record(kept[i])])

\* _lat, _lon
_lat(x) == IF x.t = "list" /\ Len(x.l) = 2 THEN x.l[1] ELSE None
_lon(x) == IF x.t = "list" /\ Len(x.l) = 2 THEN x.l[2] ELSE None

\* get_survey_data, after the survey and its data were fetched; results is
\* what Api.get_data returned (None or the list of response records)
get_survey_data(results) ==
    LET df == DataFrame(IF results.none THEN <<>> ELSE results.rows)
        Grouped(j) == Contains(df.cols[j], "group")
        Simplified(j) == LastSegment(df.cols[j], "/")
        grouped == SelectSeq(Indices(Len(df.cols)), Grouped)
        columns == [i \in 1..Len(grouped) |-> Simplified(grouped[i])]
                   \o <<"_status", "_geolocation", "_attachments">>
        renamed == [cols |-> [j \in 1..Len(df.cols) |->
                                IF Grouped(j) THEN Simplified(j) ELSE df.cols[j]],
                    rows |-> df.rows]
        selected == Select(renamed, columns)
        \* Series.apply: the results, with the dtype pandas infers for them
        geolocation == Column(selected, "_geolocation")
        latitude == Infer([r \in 1..Len(geolocation) |-> _lat(geolocation[r])])
        longitude == Infer([r \in 1..Len(geolocation) |-> _lon(geolocation[r])])
        withLat == SetColumn(selected, "LATITUDE", latitude)
        withLon == SetColumn(withLat, "LONGITUDE", longitude)
    IN  IF SelectRaises(renamed, columns)
        THEN [error |-> "KeyError", frame |-> EmptyFrame]
        ELSE [error |-> "", frame |-> Drop(withLon, <<"_geolocation", "_attachments">>)]

\* get_survey_geodata
get_survey_geodata(df) ==
    LET lat == Column(df, "LATITUDE")
        lon == Column(df, "LONGITUDE")
        geoms == [r \in 1..Len(df.rows) |->
                    IF Truthy(lat[r]) /\ Truthy(lon[r])
                    THEN Point(lon[r], lat[r])
                    ELSE None]
    IN  SetColumn(df, "geometry", geoms)

-----------------------------------------------------------------------------
(* Values of the variables a specification does not use *)

NoCondition == [none |-> TRUE, text |-> ""]
NoResults == [none |-> TRUE, rows |-> <<>>]

ApiIdle == headers = NoHeader /\ calls = <<>>
FieldsIdle == survey = <<>> /\ fields = EmptyFrame
DataIdle == response = NoResults /\ data = EmptyFrame /\ geodata = EmptyFrame
CondIdle == relevant = <<>> /\ condition = NoCondition
RunIdle ==
    /\ survey_name = "" /\ postgres_table = "" /\ postgis_table = ""
    /\ anonymize = FALSE /\ survey_uid = "" /\ output_dir = ""
    /\ files = {} /\ db = {} /\ dbWrites = <<>> /\ log = <<>> /\ runs = <<>>

-----------------------------------------------------------------------------
(* Reading Field.condition of a field whose "relevant" is the expression *)

InitCond ==
    /\ relevant \in Expressions
    /\ condition = NoCondition
    /\ pc = "field"
    /\ error = ""
    /\ ApiIdle /\ FieldsIdle /\ DataIdle /\ RunIdle

Condition ==
    /\ pc = "field"
    /\ condition' = FieldCondition(Render(relevant))
    /\ pc' = "condition"
    /\ UNCHANGED <<relevant, error, apiVars, fieldVars, dataVars, runVars>>

NextCond == Condition

SpecCond == InitCond /\ [][NextCond]_vars

\* C9: for an expression built from ${name} references and
\* selected(${name}, value) tests, parse_condition turns every test into
\* (record.get('name') == value) and every other reference into
\* record.get('name'), leaves no "${" and no "}", and balances parentheses.
C9_ParseCondition ==
    (pc = "condition" /\ relevant # <<>>) =>
        /\ ~condition.none
        /\ condition.text = Expected(relevant)
        /\ ~Contains(condition.text, "${")
        /\ ~Contains(condition.text, "}")
        /\ Balanced(condition.text)

C9_Witness ==
    /\ pc = "condition"
    /\ Len(relevant) = 2
    /\ relevant[1].atom.kind = "sel"
    /\ relevant[2].atom.kind = "ref"
    /\ condition.text = "(record.get('a') == 'x') and record.get('q_1')"

-----------------------------------------------------------------------------
(* An Api object and the calls made on it, in any order *)

MaxCalls == 3

Tokens == {"s3cr3t"}
HttpStatus == {200, 401}
SurveyUids == {SURVEYS["FICHE POINT D'EAU"], SURVEYS["FICHE SOUS PROJET AGR"]}
DataCalls == {"list_surveys", "get_survey", "get_data"}

InitApi ==
    /\ headers = NoHeader
    /\ calls = <<>>
    /\ pc = "api"
    /\ error = ""
    /\ CondIdle /\ FieldsIdle /\ DataIdle /\ RunIdle

Called(call) ==
    /\ pc = "api"
    /\ Len(calls) < MaxCalls
    /\ calls' = Append(calls, call)
    /\ error' = IF call.outcome = "ok" THEN "" ELSE call.outcome
    /\ UNCHANGED <<headers, pc, condVars, fieldVars, dataVars, runVars>>

Authenticate ==
    /\ pc = "api"
    /\ \E token \in Tokens : headers' = authenticate(token)
    /\ UNCHANGED <<calls, error, pc, condVars, fieldVars, dataVars, runVars>>

CheckAuthentication == Called(check_authentication(headers))

ListSurveys == \E status \in HttpStatus : Called(list_surveys(headers, status))

GetSurvey ==
    \E uid \in SurveyUids, status \in HttpStatus :
        Called(get_survey(headers, uid, status))

GetData ==
    \E uid \in SurveyUids, status \in HttpStatus :
        Called(get_data(headers, DataUrl(uid), status))

NextApi ==
    \/ Authenticate
    \/ CheckAuthentication
    \/ ListSurveys
    \/ GetSurvey
    \/ GetData

SpecApi == InitApi /\ [][NextApi]_vars

\* C1: a data-fetching call (list_surveys, get_survey, get_data) on an Api
\* on which authenticate was never called fails with AuthenticationError and
\* sends no request; after authenticate the calls raise no AuthenticationError.
C1_UnauthenticatedCallsFail ==
    \A i \in 1..Len(calls) :
        calls[i].method \in DataCalls =>
            IF calls[i].authorization = NoHeader
            THEN calls[i].outcome = "AuthenticationError" /\ calls[i].url = ""
            ELSE calls[i].outcome # "AuthenticationError"

-----------------------------------------------------------------------------
(* get_fields_metadata on a survey the server holds *)

MaxFields == 3

FieldMetas ==
    { <<Item("name", Str("q_1")), Item("label", List(<<Str("Question 1")>>)),
        Item("type", Str("text"))>>,
      <<Item("name", Str("subgroup")), Item("type", Str("integer"))>>,
      <<Item("name", Str("group_a")), Item("label", List(<<Str("Section A")>>)),
        Item("type", Str("begin_group"))>>,
      <<Item("name", Str("")), Item("type", Str("note"))>>,
      <<Item("type", Str("end_group"))>> }

Surveys == UNION { [1..k -> FieldMetas] : k \in 0..MaxFields }

InitFields ==
    /\ survey \in Surveys
    /\ fields = EmptyFrame
    /\ headers = authenticate("s3cr3t")
    /\ calls = <<>>
    /\ pc = "fields_call"
    /\ error = ""
    /\ CondIdle /\ DataIdle /\ RunIdle

GetFieldsMetadata ==
    /\ pc = "fields_call"
    /\ \E uid \in SurveyUids, status \in HttpStatus :
        LET call == get_survey(headers, uid, status) IN
        /\ calls' = Append(calls, call)
        /\ IF call.outcome = "ok"
           THEN /\ fields' = get_fields_metadata(survey)
                /\ error' = ""
                /\ pc' = "fields_done"
           ELSE /\ fields' = fields
                /\ error' = call.outcome
                /\ pc' = "fields_failed"
    /\ UNCHANGED <<headers, survey, condVars, dataVars, runVars>>

NextFields == GetFieldsMetadata

SpecFields == InitFields /\ [][NextFields]_vars

\* the fields the metadata table is to hold: a non-empty name that does not
\* start with "group"
IsDataField(meta) ==
    /\ Has(meta, "name")
    /\ Get(meta, "name", None).s # ""
    /\ ~StartsWith(Get(meta, "name", None).s, "group")

\* C6: get_fields_metadata returns a table with exactly the columns name,
\* label, type and one row per field whose name is non-empty and does not
\* start with "group", in declaration order.
C6_FieldsMetadata ==
    pc = "fields_done" =>
        LET kept == SelectSeq(survey, IsDataField) IN
        /\ fields.cols = <<"name", "label", "type">>
        /\ Len(fields.rows) = Len(kept)
        /\ \A i \in 1..Len(fields.rows) :
              /\ Len(fields.rows[i]) = 3
              /\ fields.rows[i][1] = Get(kept[i], "name", None)
              /\ fields.rows[i][1].s # ""
              /\ ~StartsWith(fields.rows[i][1].s, "group")

-----------------------------------------------------------------------------
(* get_survey_data and get_survey_geodata on the responses the server holds *)

MaxRows == 2

Geolocations ==
    { List(<<Num(5), Num(-3)>>), List(<<Num(0), Num(7)>>),
      List(<<None, None>>), List(<<>>), List(<<Num(1), Num(2), Num(3)>>) }

ResponseWith(geolocation) ==
    <<Item("_id", Num(1)), Item("group_a/ID_NAME", Str("Awa")),
      Item("group_a/group_b/LOCATION", Str("Kayes")),
      Item("_geolocation", geolocation), Item("_status", Str("submitted_via_web")),
      Item("_attachments", List(<<>>))>>

ResponseWithout ==
    <<Item("_id", Num(2)), Item("group_a/ID_NAME", Str("Binta")),
      Item("_status", Str("submitted_via_web")), Item("_attachments", List(<<>>))>>

Responses == { ResponseWith(g) : g \in Geolocations } \cup { ResponseWithout }

Results ==
    { NoResults } \cup
    { [none |-> FALSE, rows |-> rows] :
        rows \in UNION { [1..k -> Responses] : k \in 0..MaxRows } }

InitData ==
    /\ response \in Results
    /\ data = EmptyFrame
    /\ geodata = EmptyFrame
    /\ headers = authenticate("s3cr3t")
    /\ calls = <<>>
    /\ pc = "data_call"
    /\ error = ""
    /\ CondIdle /\ FieldsIdle /\ RunIdle

GetSurveyData ==
    /\ pc = "data_call"
    /\ \E uid \in SurveyUids, status \in HttpStatus :
        LET call == get_survey(headers, uid, status)
            got == get_survey_data(response)
        IN
        IF call.outcome # "ok"
        THEN /\ calls' = Append(calls, call)
             /\ error' = call.outcome
             /\ pc' = "data_failed"
             /\ data' = data
        ELSE /\ calls' = calls \o <<call, get_data(headers, DataUrl(uid), 200)>>
             /\ error' = got.error
             /\ pc' = IF got.error = "" THEN "data_done" ELSE "data_failed"
             /\ data' = got.frame
    /\ UNCHANGED <<headers, response, geodata, condVars, fieldVars, runVars>>

GetSurveyGeodata ==
    /\ pc = "data_done"
    /\ geodata' = get_survey_geodata(data)
    /\ pc' = "geodata_done"
    /\ UNCHANGED <<headers, calls, response, data, error, condVars, fieldVars, runVars>>

NextData == GetSurveyData \/ GetSurveyGeodata

SpecData == InitData /\ [][NextData]_vars

\* what LATITUDE (k = 1) or LONGITUDE (k = 2) is to be for a response record
CoordinateAsClaimed(record, k, value) ==
    LET g == Get(record, "_geolocation", None) IN
    IF Has(record, "_geolocation") /\ g.t = "list" /\ Len(g.l) = 2
    THEN IF IsNull(g.l[k]) THEN IsNull(value) ELSE value = g.l[k]
    ELSE IsNull(value)

\* C7: for every response row get_survey_data sets LATITUDE and LONGITUDE to
\* the two elements of a two-element _geolocation and to null when
\* _geolocation is absent or not of length two; the table it returns has the
\* columns LATITUDE and LONGITUDE and no _geolocation or _attachments.
C7_SurveyData ==
    (/\ pc \in {"data_done", "data_failed", "geodata_done"}
     /\ error # "HTTPError"
     /\ ~response.none
     /\ response.rows # <<>>) =>
        /\ pc # "data_failed"
        /\ HasCol(data, "LATITUDE") /\ HasCol(data, "LONGITUDE")
        /\ ~HasCol(data, "_geolocation") /\ ~HasCol(data, "_attachments")
        /\ Len(data.rows) = Len(response.rows)
        /\ \A r \in 1..Len(data.rows) :
              /\ CoordinateAsClaimed(response.rows[r], 1, Column(data, "LATITUDE")[r])
              /\ CoordinateAsClaimed(response.rows[r], 2, Column(data, "LONGITUDE")[r])

\* C8: get_survey_geodata keeps the rows in order and gives a row the point
\* (LONGITUDE, LATITUDE) when both are present and non-zero and a null
\* geometry otherwise; a row whose latitude is null gets a null geometry.
C8_SurveyGeodata ==
    pc = "geodata_done" =>
        /\ Drop(geodata, <<"geometry">>) = data
        /\ \A r \in 1..Len(data.rows) :
              LET lat == Column(data, "LATITUDE")[r]
                  lon == Column(data, "LONGITUDE")[r]
              IN  Column(geodata, "geometry")[r] =
                      IF /\ ~IsNull(lat) /\ ~IsNull(lon)
                         /\ lat # Num(0) /\ lon # Num(0)
                      THEN Point(lon, lat)
                      ELSE None

-----------------------------------------------------------------------------
(* update_geonode: one run, task by task *)

\* workspace.files_path
FilesPath == "/home/hexa/workspace"

\* os.getenv("KOBO_API_TOKEN")
KOBO_API_TOKEN == "s3cr3t"

Digit(d) == SubSeq("0123456789", d + 1, d + 1)

\* n in decimal, zero-padded to width digits
RECURSIVE Pad(_, _)
Pad(n, width) ==
    IF width = 0 THEN "" ELSE Pad(n \div 10, width - 1) \o Digit(n % 10)

\* now.strftime("%Y-%m-%d_%H:%M:%f")
strftime(t) ==
    Pad(t.year, 4) \o "-" \o Pad(t.month, 2) \o "-" \o Pad(t.day, 2) \o "_"
    \o Pad(t.hour, 2) \o ":" \o Pad(t.minute, 2) \o ":" \o Pad(t.microsecond, 6)

\* survey_name.lower().replace(" ", "_").replace("'", "")
survey_fname(name) == Replace(Replace(Lower(name), " ", "_"), "'", "")

OutputDir(name, t) ==
    FilesPath \o "/data/extracts/" \o survey_fname(name) \o "/" \o strftime(t)

\* os.path.join(output_dir, fname)
Join(dir, fname) == dir \o "/" \o fname

\* SURVEYS.get(survey_name, survey_name): a lookup that cannot fail
LookupOrDefault(name) ==
    [error |-> "",
     uid |-> IF name \in DOMAIN SURVEYS THEN SURVEYS[name] ELSE name]

\* SURVEYS[survey_name]
Lookup(name) ==
    IF name \in DOMAIN SURVEYS
    THEN [error |-> "", uid |-> SURVEYS[name]]
    ELSE [error |-> "KeyError", uid |-> ""]

\* [col for col in data.columns if not col.startswith("ID")]
NotIdColumns(df) ==
    LET Kept(j) == ~StartsWith(df.cols[j], "ID")
        kept == SelectSeq(Indices(Len(df.cols)), Kept)
    IN  [i \in 1..Len(kept) |-> df.cols[kept[i]]]

\* to_csv, to_file: the file at fpath holds the frame
Write(fs, fpath, frame) ==
    { f \in fs : f.path # fpath } \cup { [path |-> fpath, content |-> frame] }

HasTable(tables, name) == \E t \in tables : t.name = name
TableOf(tables, name) == (CHOOSE t \in tables : t.name = name).frame

\* DataFrame.to_sql / GeoDataFrame.to_postgis with if_exists="append"
to_sql_append(tables, name, frame) ==
    IF HasTable(tables, name)
    THEN { t \in tables : t.name # name } \cup
         { [name |-> name,
            frame |-> [cols |-> frame.cols,
                       rows |-> TableOf(tables, name).rows \o frame.rows]] }
    ELSE tables \cup { [name |-> name, frame |-> frame] }

\* DataFrame.to_sql / GeoDataFrame.to_postgis with if_exists="replace": the
\* table is dropped and created again from the frame
to_sql(tables, name, frame) ==
    { t \in tables : t.name # name } \cup { [name |-> name, frame |-> frame] }

\* if postgres_table and postgis_table
BothSupplied(postgres, postgis) == postgres # "" /\ postgis # ""

Info(text) == [level |-> "info", text |-> text]
Error(text) == [level |-> "error", text |-> text]

\* update_geonode up to authenticate: a new Api, authenticated
StartRun(in) ==
    /\ \/ pc = "start"
       \/ in.again /\ pc \in {"done", "failed"} /\ Len(runs) < in.runs
    /\ \E name \in in.names, postgres \in in.postgres, postgis \in in.postgis,
          flag \in in.flags :
        /\ survey_name' = name
        /\ postgres_table' = postgres
        /\ postgis_table' = postgis
        /\ anonymize' = flag
    /\ headers' = authenticate(KOBO_API_TOKEN)
    /\ calls' = <<>>
    /\ log' = <<Info("Connecting to KoboToolbox instance " \o KOBO_API_URL \o "...")>>
    /\ survey_uid' = ""
    /\ output_dir' = ""
    /\ error' = ""
    /\ dbWrites' = <<>>
    /\ survey' = <<>>
    /\ fields' = EmptyFrame
    /\ response' = NoResults
    /\ data' = EmptyFrame
    /\ geodata' = EmptyFrame
    /\ pc' = "lookup"
    /\ UNCHANGED <<files, db, runs, condVars>>

\* survey_uid = SURVEYS[survey_name]
ResolveSurvey ==
    /\ pc = "lookup"
    /\ LET found == Lookup(survey_name) IN
        /\ survey_uid' = found.uid
        /\ error' = found.error
        /\ pc' = IF found.error = "" THEN "mkdir" ELSE "failed"
    /\ UNCHANGED <<paramVars, output_dir, files, db, dbWrites, log, runs,
                   apiVars, fieldVars, dataVars, condVars>>

\* the timestamped output directory; makedirs(exist_ok=True) accepts one
\* that exists
MakeOutputDir(in) ==
    /\ pc = "mkdir"
    /\ \E now \in in.times :
        /\ \A i \in 1..Len(runs) : runs[i].start # now
        /\ output_dir' = OutputDir(survey_name, now)
        /\ runs' = Append(runs, [start |-> now, survey_name |-> survey_name,
                                 output_dir |-> OutputDir(survey_name, now)])
    /\ pc' = "extract_fields_metadata"
    /\ UNCHANGED <<paramVars, survey_uid, files, db, dbWrites, log, error,
                   apiVars, fieldVars, dataVars, condVars>>

\* task extract_fields_metadata
ExtractFieldsMetadata(in) ==
    /\ pc = "extract_fields_metadata"
    /\ \E status \in in.statuses, served \in in.surveys :
        LET call == get_survey(headers, survey_uid, status)
            fpath == Join(output_dir, "fields_metadata.csv")
            started == Info("Extracting fields metadata for survey "
                            \o survey_name \o "...")
        IN
        /\ calls' = Append(calls, call)
        /\ IF call.outcome = "ok"
           THEN /\ survey' = served
                /\ fields' = get_fields_metadata(served)
                /\ files' = Write(files, fpath, get_fields_metadata(served))
                /\ log' = log \o <<started,
                                   Info("Written fields metadata into " \o fpath)>>
                /\ error' = ""
                /\ pc' = "extract_data"
           ELSE /\ log' = Append(log, started)
                /\ error' = call.outcome
                /\ pc' = "failed"
                /\ UNCHANGED <<survey, fields, files>>
    /\ UNCHANGED <<paramVars, survey_uid, output_dir, db, dbWrites, runs,
                   headers, dataVars, condVars>>

\* task extract_data
ExtractData(in) ==
    /\ pc = "extract_data"
    /\ \E status \in in.statuses, results \in in.results :
        LET call == get_survey(headers, survey_uid, status)
            got == get_survey_data(results)
            fpath == Join(output_dir, "survey_data.csv")
            started == Info("Extracting data for survey " \o survey_name)
        IN
        IF call.outcome # "ok"
        THEN /\ calls' = Append(calls, call)
             /\ log' = Append(log, started)
             /\ error' = call.outcome
             /\ pc' = "failed"
             /\ UNCHANGED <<response, data, files>>
        ELSE /\ calls' = calls \o <<call, get_data(headers, DataUrl(survey_uid), 200)>>
             /\ response' = results
             /\ IF got.error # ""
                THEN /\ log' = Append(log, started)
                     /\ error' = got.error
                     /\ pc' = "failed"
                     /\ UNCHANGED <<data, files>>
                ELSE /\ data' = got.frame
                     /\ files' = Write(files, fpath, got.frame)
                     /\ log' = log \o <<started,
                                        Error("No data found in survey " \o survey_name),
                                        Info("Written survey data into " \o fpath)>>
                     /\ error' = ""
                     /\ pc' = "anonymize"
    /\ UNCHANGED <<paramVars, survey_uid, output_dir, db, dbWrites, runs,
                   headers, fieldVars, geodata, condVars>>

\* if anonymize: data = data[columns]
Anonymize ==
    /\ pc = "anonymize"
    /\ data' = IF anonymize THEN Select(data, NotIdColumns(data)) ELSE data
    /\ pc' = "extract_geodata"
    /\ UNCHANGED <<runVars, apiVars, fieldVars, response, geodata, error, condVars>>

\* task extract_geodata
ExtractGeodata ==
    /\ pc = "extract_geodata"
    /\ LET fpath == Join(output_dir, "survey_data.gpkg") IN
        /\ geodata' = get_survey_geodata(data)
        /\ files' = Write(files, fpath, get_survey_geodata(data))
        /\ log' = log \o <<Info("Extracting data for survey " \o survey_name),
                           Info("Written survey geodata into " \o fpath)>>
    /\ pc' = "push"
    /\ UNCHANGED <<paramVars, survey_uid, output_dir, db, dbWrites, runs,
                   apiVars, fieldVars, response, data, error, condVars>>

\* task push_to_database (overwrite=True), when both table names are given:
\* either write may fail in the database
PushToDatabase(in) ==
    /\ pc = "push"
    /\ BothSupplied(postgres_table, postgis_table)
    /\ \E outcome \in in.pushes :
        LET first == to_sql(db, postgres_table, data)
            second == to_sql(first, postgis_table, geodata)
            w1 == [name |-> postgres_table, replaced |-> HasTable(db, postgres_table)]
            w2 == [name |-> postgis_table, replaced |-> HasTable(first, postgis_table)]
            m1 == Info("Pushed data to database table " \o postgres_table)
            m2 == Info("Pushed geodata to database table " \o postgis_table)
        IN
        CASE outcome = "to_sql fails" ->
                /\ error' = "OperationalError" /\ pc' = "failed"
                /\ UNCHANGED <<db, dbWrites, log>>
          [] outcome = "to_postgis fails" ->
                /\ db' = first /\ dbWrites' = Append(dbWrites, w1)
                /\ log' = Append(log, m1)
                /\ error' = "OperationalError" /\ pc' = "failed"
          [] OTHER ->
                /\ db' = second /\ dbWrites' = dbWrites \o <<w1, w2>>
                /\ log' = log \o <<m1, m2>>
                /\ error' = "" /\ pc' = "done"
    /\ UNCHANGED <<paramVars, survey_uid, output_dir, files, runs, apiVars,
                   fieldVars, dataVars, condVars>>

\* update_geonode returns without a push when a table name is missing
Return ==
    /\ pc = "push"
    /\ ~BothSupplied(postgres_table, postgis_table)
    /\ pc' = "done"
    /\ UNCHANGED <<runVars, apiVars, fieldVars, dataVars, error, condVars>>

-----------------------------------------------------------------------------
(* One run with any parameters, on a database that may hold older tables *)

MaxRuns == 2

T0 ==
    [year |-> 2023, month |-> 6, day |-> 14, hour |-> 10, minute |-> 15,
     second |-> 1, microsecond |-> 123]

Times ==
    { T0, [T0 EXCEPT !.day = 15], [T0 EXCEPT !.hour = 11],
      [T0 EXCEPT !.minute = 16], [T0 EXCEPT !.second = 2],
      [T0 EXCEPT !.microsecond = 124] }

OldFrame ==
    [cols |-> <<"ID_NAME", "LATITUDE", "LONGITUDE">>,
     rows |-> << <<Str("Old"), Num(9), Num(9)>> >>]

ServedSurvey ==
    << <<Item("name", Str("group_a")), Item("type", Str("begin_group"))>>,
       <<Item("name", Str("ID_NAME")), Item("label", List(<<Str("Name")>>)),
         Item("type", Str("text"))>>,
       <<Item("name", Str("LOCATION")), Item("type", Str("text"))>> >>

OneRun ==
    [names |-> {"FICHE POINT D'EAU", "FICHE SOUS PROJET AGR", "FICHE INCONNUE"},
     postgres |-> {"", "survey_raw", "survey_geo"},
     postgis |-> {"", "survey_raw", "survey_geo"},
     flags |-> BOOLEAN,
     times |-> {T0},
     statuses |-> HttpStatus,
     surveys |-> {ServedSurvey},
     results |-> Results,
     pushes |-> {"ok", "to_sql fails", "to_postgis fails"},
     again |-> FALSE,
     runs |-> 1]

RunInit ==
    /\ pc = "start"
    /\ error = ""
    /\ survey_name = "" /\ postgres_table = "" /\ postgis_table = ""
    /\ anonymize = FALSE /\ survey_uid = "" /\ output_dir = ""
    /\ files = {} /\ dbWrites = <<>> /\ log = <<>> /\ runs = <<>>
    /\ ApiIdle /\ FieldsIdle /\ DataIdle /\ CondIdle

Init ==
    /\ RunInit
    /\ db \in SUBSET { [name |-> "survey_raw", frame |-> OldFrame],
                       [name |-> "survey_geo", frame |-> OldFrame] }

Next ==
    \/ StartRun(OneRun)
    \/ ResolveSurvey
    \/ MakeOutputDir(OneRun)
    \/ ExtractFieldsMetadata(OneRun)
    \/ ExtractData(OneRun)
    \/ Anonymize
    \/ ExtractGeodata
    \/ PushToDatabase(OneRun)
    \/ Return

Spec == Init /\ [][Next]_vars

IsKnown(name) == name \in DOMAIN SURVEYS
Started == pc # "start"
Fetched == \E i \in 1..Len(calls) : calls[i].method = "get_data"
EmptyResults == response.none \/ response.rows = <<>>
HasIdColumn(df) == \E j \in 1..Len(df.cols) : StartsWith(df.cols[j], "ID")
Written(fname) == \E f \in files : f.path = Join(output_dir, fname)
Logged(m) == \E i \in 1..Len(log) : log[i] = m

\* C2: when the API returns no response rows the run does not fail on it:
\* the no-data message is reported, survey_data.csv is written and the
\* later steps run on the empty table.
C2_EmptyResultsNotFatal ==
    (Fetched /\ EmptyResults) =>
        /\ error # "KeyError"
        /\ pc # "extract_data" =>
              /\ Logged(Error("No data found in survey " \o survey_name))
              /\ Written("survey_data.csv")
        /\ pc = "done" => Written("survey_data.gpkg")

\* C3: with anonymize set, no data output of the run (survey_data.csv,
\* survey_data.gpkg, the two tables) has a column whose name starts with "ID".
C3_NoIdColumnInOutputs ==
    (Started /\ anonymize) =>
        /\ \A f \in files :
              f.path \in {Join(output_dir, "survey_data.csv"),
                          Join(output_dir, "survey_data.gpkg")}
                  => ~HasIdColumn(f.content)
        /\ \A i \in 1..Len(dbWrites) :
              ~HasIdColumn(TableOf(db, dbWrites[i].name))

\* C4 as stated: a run that completes has written to the database if and
\* only if both table names were supplied, and after a run that succeeds with
\* both supplied each of the two tables holds exactly the run's response /
\* geospatial table.
C4_WritesIffBothSupplied ==
    /\ pc = "done" =>
          ((dbWrites # <<>>) <=> BothSupplied(postgres_table, postgis_table))
    /\ (pc = "done" /\ BothSupplied(postgres_table, postgis_table)) =>
          /\ TableOf(db, postgres_table) = data
          /\ TableOf(db, postgis_table) = geodata

\* C4, amended: a run writes to the database only if both table names are
\* supplied, and a run that completes has written if and only if both were;
\* after a run that succeeds with both supplied the geo table holds exactly
\* the run's geospatial table and, when the two names differ, the relational
\* table holds exactly the run's response table, whatever they held before.
C4_FullReplace ==
    /\ dbWrites # <<>> => BothSupplied(postgres_table, postgis_table)
    /\ pc = "done" =>
          ((dbWrites # <<>>) <=> BothSupplied(postgres_table, postgis_table))
    /\ (pc = "done" /\ BothSupplied(postgres_table, postgis_table)) =>
          /\ Cardinality({ t \in db : t.name = postgis_table }) = 1
          /\ TableOf(db, postgis_table) = geodata
          /\ postgres_table # postgis_table =>
                /\ Cardinality({ t \in db : t.name = postgres_table }) = 1
                /\ TableOf(db, postgres_table) = data

C4_Witness ==
    /\ pc = "done"
    /\ postgres_table = "survey_raw" /\ postgis_table = "survey_geo"
    /\ Len(dbWrites) = 2 /\ dbWrites[1].replaced /\ dbWrites[2].replaced
    /\ Len(data.rows) = 2
    /\ db = { [name |-> "survey_raw", frame |-> data],
              [name |-> "survey_geo", frame |-> geodata] }

\* C5: a survey_name that is no key of SURVEYS makes the run fail with a
\* lookup error before any request is sent; for a known name every survey
\* request carries the identifier the mapping gives ("FICHE POINT D'EAU" is
\* "aNgKpfspFR4x9zJoCzkhAU").
C5_LookupBeforeRequests ==
    Started =>
        /\ ~IsKnown(survey_name) =>
              /\ pc \in {"lookup", "failed"}
              /\ calls = <<>>
              /\ pc = "failed" => error = "KeyError"
        /\ IsKnown(survey_name) =>
              /\ pc \notin {"lookup"} => survey_uid = SURVEYS[survey_name]
              /\ \A i \in 1..Len(calls) :
                    /\ calls[i].method = "get_survey" =>
                          calls[i].url = ApiUrl \o "/assets/" \o SURVEYS[survey_name] \o ".json"
                    /\ calls[i].method = "get_data" =>
                          calls[i].url = DataUrl(SURVEYS[survey_name])
        /\ (survey_name = "FICHE POINT D'EAU" /\ pc \notin {"lookup"}) =>
              /\ survey_uid = "aNgKpfspFR4x9zJoCzkhAU"
              /\ \A i \in 1..Len(calls) :
                    calls[i].method = "get_survey" =>
                        calls[i].url =
                            "https://kobo.example.org/api/v2/assets/aNgKpfspFR4x9zJoCzkhAU.json"

C5_Witness ==
    /\ pc = "failed"
    /\ survey_name = "FICHE INCONNUE"
    /\ error = "KeyError"
    /\ calls = <<>>

-----------------------------------------------------------------------------
(* Runs one after the other, at different times *)

SeveralRuns ==
    [names |-> {"FICHE POINT D'EAU", "FICHE SOUS PROJET AGR"},
     postgres |-> {"", "survey_raw"},
     postgis |-> {"survey_geo"},
     flags |-> {TRUE},
     times |-> Times,
     statuses |-> HttpStatus,
     surveys |-> {ServedSurvey},
     results |-> { [none |-> FALSE, rows |-> <<ResponseWith(List(<<Num(5), Num(-3)>>))>>] },
     pushes |-> {"ok"},
     again |-> TRUE,
     runs |-> MaxRuns]

InitRuns == RunInit /\ db = {}

NextRuns ==
    \/ StartRun(SeveralRuns)
    \/ ResolveSurvey
    \/ MakeOutputDir(SeveralRuns)
    \/ ExtractFieldsMetadata(SeveralRuns)
    \/ ExtractData(SeveralRuns)
    \/ Anonymize
    \/ ExtractGeodata
    \/ PushToDatabase(SeveralRuns)
    \/ Return

SpecRuns == InitRuns /\ [][NextRuns]_vars

\* C10: two runs for the same survey whose start times differ in date, hour,
\* minute, second or microsecond get different output directories.
C10_DistinctOutputDirs ==
    \A i, j \in 1..Len(runs) :
        (/\ i # j
         /\ runs[i].survey_name = runs[j].survey_name
         /\ runs[i].start # runs[j].start)
            => runs[i].output_dir # runs[j].output_dir

====
